---- MODULE Spec2Model ----
(***************************************************************************)
(* BadRingBuffer<T> (src/src/lib.rs): a fixed-capacity ring buffer over a  *)
(* raw allocation, with its Iterator, Read and Write implementations.      *)
(*                                                                         *)
(* The buffer's fields are the variables head, tail, count, capacity and   *)
(* storage (the block behind start_ptr).  Every method is a pure operator  *)
(* over a record of those fields, computed statement by statement as the   *)
(* source computes it, and one action per method applies it.  The other    *)
(* variables belong to the test harness that drives the buffer: a          *)
(* reference lossy FIFO, an independent live-element counter, a recorder   *)
(* of the pushes and pops made since construction, a second buffer that is *)
(* re-constructed whenever the buffer is cleared, and the name of the last *)
(* call with the number of elements it handed over.  What a call returns   *)
(* is what its operator yields on the state it is made in.  SpecOwn is the *)
(* same program with the ownership of each slot's value followed as well.  *)
(***************************************************************************)
EXTENDS Integers, Sequences, FiniteSets, TLC

\* ------------------------------------------------------------------ bounds
\* Largest capacity passed to with_capacity (0 is included: the source
\* accepts it).
MaxCap == 3
\* Element values are 1..MaxVal.
MaxVal == 2
\* The recorder follows at most this many pushes after construction.
MaxPush == 5
\* Longest caller region handed to read() and write().
MaxBuf == 2

Vals == 1..MaxVal

\* Option<T>: None is the empty sequence, Some(v) the one-element sequence.
None == <<>>
Some(v) == <<v>>

\* ----------------------------------------------------------------- storage
\* The block behind start_ptr: one cell per slot, holding the value the last
\* ptr::write put there, or Uninit while no ptr::write has reached the slot
\* since alloc.  Reading a slot (ptr.read) leaves its bytes where they are.
Uninit == 0

\* The slots a run of next() calls on self can read: the count slots from
\* tail on, wrapping.
Window(self) ==
    {(self.tail + k) % self.capacity : k \in 0..(self.count - 1)}

\* The slots among them that no ptr::write has reached yet (or that lie past
\* the block).
UninitWindow(self) ==
    {i \in Window(self) : i \notin DOMAIN self.storage
                             \/ self.storage[i] = Uninit}

\* What the allocator left in those slots: one arbitrary value each, chosen
\* afresh by each call that reads the block (other: a second buffer driven
\* by the same calls).
Garbage(self, other) == [UninitWindow(self) \cup UninitWindow(other) -> Vals]

\* ptr.offset(i).read(): the slot's bytes; of a slot never written (or past
\* the block) whatever the allocator left there.
ReadSlot(self, i, g) ==
    IF i \in DOMAIN self.storage /\ self.storage[i] # Uninit
    THEN self.storage[i]
    ELSE IF i \in DOMAIN g THEN g[i] ELSE 1

\* ptr::write(ptr.offset(i), value): no drop of what the slot held.
WriteSlot(self, i, value) ==
    IF i \in DOMAIN self.storage
    THEN [self.storage EXCEPT ![i] = value]
    ELSE self.storage

\* ----------------------------------------------------------------- methods
\* Each method returns [self, ret, n, panic]: the buffer afterwards, the
\* value(s) returned, the Ok(n) of the io adapters, and whether it panicked.

with_capacity(c) ==
    [head |-> 0, tail |-> 0, count |-> 0, capacity |-> c,
     storage |-> [i \in 0..(c - 1) |-> Uninit]]

\* empty() decided by comparing the indices (mutant of empty).
empty_by_indices(self) == self.head = self.tail

empty(self) == self.count = 0

full(self) == self.count = self.capacity

capacity_of(self) == self.capacity

\* push() that writes the value after it has advanced head (mutant of push).
push_writes_after_advance(self, value) ==
    IF self.capacity = 0
    THEN [self |-> self, ret |-> None, n |-> 0, panic |-> TRUE]
    ELSE
    LET count1 == IF self.count < self.capacity THEN self.count + 1
                  ELSE self.count
        head1 == (self.head + 1) % self.capacity
        storage1 == WriteSlot(self, head1, value)
        tail1 == IF head1 > self.tail /\ count1 = self.capacity
                 THEN self.tail + 1 ELSE self.tail
    IN [self |-> [self EXCEPT !.storage = storage1, !.count = count1,
                              !.head = head1, !.tail = tail1],
        ret |-> None, n |-> 0, panic |-> FALSE]

\* push() that advances tail whenever the buffer is full, without comparing
\* head with tail and without wrapping (mutant of push).
push_tail_unwrapped(self, value) ==
    IF self.capacity = 0
    THEN [self |-> self, ret |-> None, n |-> 0, panic |-> TRUE]
    ELSE
    LET storage1 == WriteSlot(self, self.head, value)
        count1 == IF self.count < self.capacity THEN self.count + 1
                  ELSE self.count
        head1 == (self.head + 1) % self.capacity
        tail1 == IF self.count = self.capacity
                 THEN self.tail + 1 ELSE self.tail
    IN [self |-> [self EXCEPT !.storage = storage1, !.count = count1,
                              !.head = head1, !.tail = tail1],
        ret |-> None, n |-> 0, panic |-> FALSE]

\* push() with the count incremented on every call (mutant of push).
push_count_unbounded(self, value) ==
    IF self.capacity = 0
    THEN [self |-> self, ret |-> None, n |-> 0, panic |-> TRUE]
    ELSE
    LET storage1 == WriteSlot(self, self.head, value)
        count1 == self.count + 1
        head1 == (self.head + 1) % self.capacity
        tail1 == IF head1 > self.tail /\ count1 = self.capacity
                 THEN self.tail + 1 ELSE self.tail
    IN [self |-> [self EXCEPT !.storage = storage1, !.count = count1,
                              !.head = head1, !.tail = tail1],
        ret |-> None, n |-> 0, panic |-> FALSE]

push(self, value) ==
    IF self.capacity = 0
    THEN \* (self.head + 1) % self.capacity: remainder by zero
         [self |-> self, ret |-> None, n |-> 0, panic |-> TRUE]
    ELSE
    LET storage1 == WriteSlot(self, self.head, value)
        count1 == IF self.count < self.capacity THEN self.count + 1
                  ELSE self.count
        head1 == (self.head + 1) % self.capacity
        tail1 == IF head1 > self.tail /\ count1 = self.capacity
                 THEN self.tail + 1 ELSE self.tail
    IN [self |-> [self EXCEPT !.storage = storage1, !.count = count1,
                              !.head = head1, !.tail = tail1],
        ret |-> None, n |-> 0, panic |-> FALSE]

\* clear() that resets every numeric field, capacity included (mutant of
\* clear).
clear_resets_capacity(self) ==
    [self EXCEPT !.count = 0, !.head = 0, !.tail = 0, !.capacity = 0]

\* clear() that forgets to reset tail (mutant of clear).
clear_keeps_tail(self) == [self EXCEPT !.count = 0, !.head = 0]

clear(self) == [self EXCEPT !.count = 0, !.head = 0, !.tail = 0]

\* next() that advances tail before it looks at count (mutant of next).
next_advances_first(self, g) ==
    LET tail1 == IF self.tail + 1 < self.capacity THEN self.tail + 1 ELSE 0
    IN IF empty(self)
       THEN [self |-> [self EXCEPT !.tail = tail1], ret |-> None, n |-> 0,
             panic |-> FALSE]
       ELSE [self |-> [self EXCEPT !.tail = tail1,
                                   !.count = self.count - 1],
             ret |-> Some(ReadSlot(self, self.tail, g)), n |-> 0,
             panic |-> FALSE]

\* next() that leaves tail where it is (mutant of next).
next_tail_stays(self, g) ==
    IF empty(self)
    THEN [self |-> self, ret |-> None, n |-> 0, panic |-> FALSE]
    ELSE
    LET p == ReadSlot(self, self.tail, g)
    IN [self |-> [self EXCEPT !.count = self.count - 1],
        ret |-> Some(p), n |-> 0, panic |-> FALSE]

next(self, g) ==
    IF empty(self)
    THEN [self |-> self, ret |-> None, n |-> 0, panic |-> FALSE]
    ELSE
    LET p == ReadSlot(self, self.tail, g)
    IN [self |-> [self EXCEPT !.tail = (self.tail + 1) % self.capacity,
                              !.count = self.count - 1],
        ret |-> Some(p), n |-> 0, panic |-> FALSE]

\* Iterator::collect::<Vec<_>>(): next() until it returns None.
RECURSIVE collect(_, _)
collect(self, g) ==
    LET r == next(self, g)
    IN IF r.ret = None
       THEN [self |-> r.self, ret |-> <<>>]
       ELSE LET rest == collect(r.self, g)
            IN [self |-> rest.self, ret |-> r.ret \o rest.ret]

\* drain() that clears before it collects (mutant of drain).
drain_clears_first(self, g) ==
    LET values == collect(clear(self), g)
    IN [self |-> values.self, ret |-> values.ret, n |-> 0, panic |-> FALSE]

drain(self, g) ==
    LET values == collect(self, g)
    IN [self |-> clear(values.self), ret |-> values.ret, n |-> 0,
        panic |-> FALSE]

\* The loop of Read::read, entered with `index` elements already stored.
RECURSIVE read_loop(_, _, _, _)
read_loop(self, buf, index, g) ==
    LET r == next(self, g)
    IN IF r.ret = None
       THEN [self |-> r.self, ret |-> buf, n |-> index, panic |-> FALSE]
       ELSE IF index >= Len(buf)
       THEN \* buf[index] = value: index out of bounds
            [self |-> r.self, ret |-> buf, n |-> index, panic |-> TRUE]
       ELSE LET buf1 == [buf EXCEPT ![index + 1] = r.ret[1]]
            IN IF index + 1 = Len(buf)
               THEN [self |-> r.self, ret |-> buf1, n |-> index + 1,
                     panic |-> FALSE]
               ELSE read_loop(r.self, buf1, index + 1, g)

read(self, buf, g) == read_loop(self, buf, 0, g)

\* buf.iter().for_each(|v| self.push(*v)); Ok(buf.len())
RECURSIVE write_loop(_, _, _)
write_loop(self, buf, i) ==
    IF i > Len(buf)
    THEN [self |-> self, ret |-> None, n |-> Len(buf), panic |-> FALSE]
    ELSE LET r == push(self, buf[i])
         IN IF r.panic
            THEN [self |-> r.self, ret |-> None, n |-> 0, panic |-> TRUE]
            ELSE write_loop(r.self, buf, i + 1)

write(self, buf) == write_loop(self, buf, 1)

flush(self) == [self |-> clear(self), ret |-> None, n |-> 0, panic |-> FALSE]

\* ------------------------------------------------------------------- state
VARIABLES
    head, tail, count, capacity, storage,  \* the fields of BadRingBuffer
    panicked,     \* the thread has panicked: nothing runs after that
    last,         \* the last call: its name and how many elements it
                  \* returned (next, drain), transferred (read) or accepted
                  \* (write)
    Q,            \* the reference lossy FIFO
    live,         \* the harness's own count of live elements
    phase, pushed, out,  \* the recorder: pushes, then pops, since construction
    shadow,       \* a buffer constructed afresh at every clear()
    requested,    \* the capacity that was passed to with_capacity
    track, own,   \* with track set, own[i] follows the value in slot i:
                  \* "uninit" until a ptr::write reaches the slot, "live"
                  \* once written, "moved" once ptr.read has moved it out
    dropped       \* how many elements the last call finalized (dropped)

vars == <<head, tail, count, capacity, storage, panicked, last, Q, live,
          phase, pushed, out, shadow, requested, track, own, dropped>>

Self == [head |-> head, tail |-> tail, count |-> count,
         capacity |-> capacity, storage |-> storage]

\* ------------------------------------------------------- the reference FIFO
refPush(q, v, c) == IF Len(q) >= c THEN Tail(q) \o <<v>> ELSE Append(q, v)

refNext(q) ==
    IF q = <<>> THEN [q |-> q, ret |-> None]
    ELSE [q |-> Tail(q), ret |-> Some(Head(q))]

RECURSIVE refWrite(_, _, _, _)
refWrite(q, buf, i, c) ==
    IF i > Len(buf) THEN q ELSE refWrite(refPush(q, buf[i], c), buf, i + 1, c)

Min(a, b) == IF a < b THEN a ELSE b

\* --------------------------------------------------------------- the recorder
\* phase is "pushing" while only push() has been called since construction
\* (at most MaxPush times), "popping" while only next() has been called after
\* those pushes (until one call past exhaustion), and "mixed" from then on,
\* where nothing is recorded.
Mixed == <<"mixed", <<>>, <<>>>>

RecPush(v) ==
    IF phase = "pushing" /\ Len(pushed) < MaxPush
    THEN <<"pushing", Append(pushed, v), <<>>>> ELSE Mixed

RecNext(ret) ==
    IF phase \in {"pushing", "popping"} /\ Len(out) <= Len(pushed)
    THEN <<"popping", pushed, Append(out, ret)>> ELSE Mixed

Record(r) == phase' = r[1] /\ pushed' = r[2] /\ out' = r[3]

\* ------------------------------------------------------------ slot ownership
\* The k slots that k next() calls read: from tail on, one per call, wrapping.
PopSlots(self, k) == {(self.tail + j) % self.capacity : j \in 0..(k - 1)}

\* The k slots that k push() calls write: from head on, one per call,
\* wrapping.
PushSlots(self, k) == {(self.head + j) % self.capacity : j \in 0..(k - 1)}

\* own after a call that made `popped` successful next() calls or `written`
\* push() calls on the buffer Self: ptr.read moves a live value out of its
\* slot and ptr::write puts a live value into its slot, whatever it held.
Owned(popped, written) ==
    /\ track' = track
    /\ own' = IF ~track THEN own
              ELSE [i \in DOMAIN own |->
                      IF i \in PushSlots(Self, written) THEN "live"
                      ELSE IF i \in PopSlots(Self, popped)
                              /\ own[i] = "live" THEN "moved"
                      ELSE own[i]]

\* ------------------------------------------------------------------ actions
\* The buffer and the panic flag after a method returned o; so is the same
\* call's outcome on the shadow buffer.
Commit(op, k, o, so) ==
    /\ head' = o.self.head
    /\ tail' = o.self.tail
    /\ count' = o.self.count
    /\ capacity' = o.self.capacity
    /\ storage' = o.self.storage
    /\ panicked' = o.panic
    /\ last' = [op |-> op, n |-> k]
    /\ shadow' = so.self
    /\ requested' = requested
    \* no method drops an element: ptr::write overwrites a slot without
    \* dropping what it held, clear() only resets the indices, and the type
    \* has no Drop impl
    /\ dropped' = 0

\* The state after with_capacity(c).
Constructed ==
    /\ \E c \in 0..MaxCap :
          /\ requested = c
          /\ capacity = with_capacity(c).capacity
          /\ storage = with_capacity(c).storage
          /\ shadow = with_capacity(c)
          /\ own = [i \in 0..(c - 1) |-> "uninit"]
    /\ dropped = 0
    /\ head = 0 /\ tail = 0 /\ count = 0
    /\ panicked = FALSE
    /\ last = [op |-> "with_capacity", n |-> 0]
    /\ Q = <<>>
    /\ live = 0
    /\ phase = "pushing" /\ pushed = <<>> /\ out = <<>>

Init == Constructed /\ track = FALSE

\* The same program with the ownership of every slot's value followed.
InitOwn == Constructed /\ track = TRUE

DoPush ==
    /\ ~panicked
    /\ \E v \in Vals :
          /\ Commit("push", 0, push(Self, v), push(shadow, v))
          /\ Owned(0, IF push(Self, v).panic THEN 0 ELSE 1)
          /\ Q' = IF capacity = 0 THEN Q ELSE refPush(Q, v, capacity)
          /\ live' = Min(live + 1, capacity)
          /\ Record(RecPush(v))

DoNext ==
    /\ ~panicked
    /\ \E g \in Garbage(Self, shadow) :
          LET o == next(Self, g)
          IN /\ Commit("next", Len(o.ret), o, next(shadow, g))
             /\ Owned(Len(o.ret), 0)
             /\ Q' = refNext(Q).q
             /\ live' = IF o.ret = None THEN live ELSE live - 1
             /\ Record(RecNext(o.ret))

DoClear ==
    /\ ~panicked
    /\ Commit("clear", 0,
              [self |-> clear(Self), panic |-> FALSE],
              [self |-> with_capacity(capacity)])
    /\ Owned(0, 0)
    /\ Q' = <<>>
    /\ live' = 0
    /\ Record(Mixed)

DoDrain ==
    /\ ~panicked
    /\ \E g \in Garbage(Self, shadow) :
          /\ Commit("drain", Len(drain(Self, g).ret), drain(Self, g),
                    drain(shadow, g))
          /\ Owned(Len(drain(Self, g).ret), 0)
          /\ Q' = <<>>
          /\ live' = 0
          /\ Record(Mixed)

DoRead ==
    /\ ~panicked
    /\ \E len \in 0..MaxBuf, g \in Garbage(Self, shadow) :
          LET buf == [i \in 1..len |-> 0]
              o == read(Self, buf, g)
          IN /\ Commit("read", o.n, o, read(shadow, buf, g))
             /\ Owned(count - o.self.count, 0)
             /\ Q' = SubSeq(Q, Min(len, Len(Q)) + 1, Len(Q))
             /\ live' = live - o.n
             /\ Record(Mixed)

DoWrite ==
    /\ ~panicked
    /\ \E len \in 0..MaxBuf :
        \E buf \in [1..len -> Vals] :
          /\ Commit("write", write(Self, buf).n, write(Self, buf),
                    write(shadow, buf))
          /\ Owned(0, IF write(Self, buf).panic THEN 0 ELSE len)
          /\ Q' = IF capacity = 0 THEN Q ELSE refWrite(Q, buf, 1, capacity)
          /\ live' = Min(live + len, capacity)
          /\ Record(Mixed)

DoFlush ==
    /\ ~panicked
    /\ Commit("flush", 0, flush(Self), flush(shadow))
    /\ Owned(0, 0)
    /\ Q' = <<>>
    /\ live' = 0
    /\ Record(Mixed)

Next ==
    \/ DoPush
    \/ DoNext
    \/ DoClear
    \/ DoDrain
    \/ DoRead
    \/ DoWrite
    \/ DoFlush

Spec == Init /\ [][Next]_vars

SpecOwn == InitOwn /\ [][Next]_vars

\* ------------------------------------------------------------------ claims
\* The last k elements of s.
LastN(s, k) == SubSeq(s, Len(s) - k + 1, Len(s))

\* What repeated next() calls, made until one returns None, return.
RECURSIVE PopUntilNone(_, _)
PopUntilNone(self, g) ==
    LET r == next(self, g)
    IN IF r.ret = None THEN <<>> ELSE r.ret \o PopUntilNone(r.self, g)

\* C1: after only pushes v1..v(c+k), k >= 1, into a freshly constructed
\* buffer of capacity c >= 1, drain() returns the last c pushed values,
\* oldest first.
C1_EvictionOrder ==
    (phase = "pushing" /\ ~panicked /\ capacity >= 1
        /\ Len(pushed) > capacity)
    => \A g \in Garbage(Self, Self) :
          drain(Self, g).ret = LastN(pushed, capacity)

\* C2: run side by side with the reference lossy FIFO Q, every next() on the
\* buffer returns what next() on Q returns, and drain() returns Q's contents
\* in order.
C2_RefinesLossyFifo ==
    (capacity >= 1 /\ ~panicked)
    => \A g \in Garbage(Self, Self) :
          /\ next(Self, g).ret = refNext(Q).ret
          /\ drain(Self, g).ret = Q

\* C3: after pushes v1..vn, n <= c, into a freshly constructed buffer of
\* capacity c >= 1, the first n next() calls return Some(v1), ..., Some(vn)
\* in that order.
C3_FifoNoOverflow ==
    (phase = "popping" /\ capacity >= 1 /\ Len(pushed) <= capacity)
    => \A j \in 1..Len(out) :
          j <= Len(pushed) => out[j] = Some(pushed[j])

\* A full run of C3's case: a buffer of capacity >= 2 filled to capacity
\* with values that differ, then popped capacity times.
C3_Witness ==
    /\ phase = "popping" /\ capacity >= 2
    /\ Len(pushed) = capacity /\ Len(out) = capacity
    /\ pushed[1] # pushed[2]

\* C4: a push() that starts with count = capacity ends with
\* tail = (old tail + 1) mod capacity, and a push() that starts with
\* count < capacity leaves tail unchanged.
C4_TailAdvance ==
    [][(last'.op = "push" /\ ~panicked' /\ capacity >= 1)
       => tail' = IF count = capacity THEN (tail + 1) % capacity
                  ELSE tail]_vars

\* C5: with the harness's independently tracked live-element count, the
\* buffer has 0 <= count <= capacity, count = live, full() iff
\* live = capacity, and empty() iff live = 0.
C5_CountConsistency ==
    (capacity >= 1 /\ ~panicked)
    => /\ 0 <= count /\ count <= capacity
       /\ count = live
       /\ full(Self) = (live = capacity)
       /\ empty(Self) = (live = 0)

\* A next() has just taken one element from a buffer of capacity >= 2,
\* leaving it one short of full.
C5_Witness ==
    /\ last.op = "next" /\ last.n = 1
    /\ capacity >= 2 /\ count = capacity - 1 /\ live = count
    /\ ~full(Self) /\ ~empty(Self)

\* C6: in every state reachable from with_capacity(c), c >= 1, by push, next,
\* clear, drain, read and write, 0 <= head < capacity and
\* 0 <= tail < capacity.
C6_IndexBounds ==
    capacity >= 1
    => /\ 0 <= head /\ head < capacity
       /\ 0 <= tail /\ tail < capacity

\* The un-wrapped `tail += 1` of push() has just moved tail to the last index
\* of a full buffer.
C6_Witness ==
    /\ last.op = "push" /\ capacity >= 2
    /\ count = capacity /\ tail = capacity - 1 /\ head = capacity - 1

\* C7: from every reachable state, drain() returns the values that repeated
\* next() calls (until None) would return from that state, in the same
\* order, and leaves the buffer empty: empty() holds and next() returns None.
C7_DrainCompleteness ==
    ~panicked
    => \A g \in Garbage(Self, Self) :
          LET d == drain(Self, g)
          IN /\ d.ret = PopUntilNone(Self, g)
             /\ ~d.panic
             /\ empty(d.self)
             /\ next(d.self, g).ret = None

\* A drain() of a full buffer of capacity >= 2 has just run.
C7_Witness ==
    /\ last.op = "drain" /\ capacity >= 2 /\ last.n = capacity
    /\ count = 0 /\ head = 0 /\ tail = 0

\* C8: clear() in any reachable state leaves count = head = tail = 0, so
\* empty() holds and next() returns None; a second clear() changes nothing;
\* and the calls made after a clear() behave as on a freshly constructed
\* buffer (the shadow): same indices, same count, same elements to pop.
C8_Clear ==
    ~panicked
    => /\ LET c == clear(Self)
          IN /\ c.count = 0 /\ c.head = 0 /\ c.tail = 0
             /\ c.capacity = capacity
             /\ empty(c)
             /\ \A g \in Garbage(c, c) : next(c, g).ret = None
             /\ clear(c) = c
       /\ (last.op = "clear" => count = 0 /\ head = 0 /\ tail = 0)
       /\ head = shadow.head /\ tail = shadow.tail /\ count = shadow.count
       /\ capacity = shadow.capacity
       /\ \A g \in Garbage(Self, shadow) :
             PopUntilNone(Self, g) = PopUntilNone(shadow, g)

\* Pushes made after a clear() of a buffer whose block still holds the old
\* values: the buffer is partly filled and differs from the fresh one only
\* in the slots not yet written again.
C8_Witness ==
    /\ last.op = "push" /\ ~panicked
    /\ count >= 1 /\ count < capacity
    /\ storage # shadow.storage

\* C9: a next() made with count = 0 returns None and leaves head, tail,
\* count, capacity and every slot unchanged.
C9_PopOnEmpty ==
    [][(count = 0 /\ last'.op = "next")
       => /\ last'.n = 0
          /\ ~panicked'
          /\ UNCHANGED <<head, tail, count, capacity, storage>>]_vars

\* next() has just returned None on a buffer that was popped empty with
\* tail off index 0.
C9_Witness ==
    /\ last.op = "next" /\ last.n = 0
    /\ count = 0 /\ tail # 0 /\ phase = "popping"

\* C10: for every caller region of length L >= 0, read() does not fail,
\* removes exactly min(L, count) elements, writes them oldest-first into the
\* first min(L, count) positions of the region and returns Ok(min(L, count)).
C10_ReadTransfer ==
    ~panicked
    => \A len \in 0..MaxBuf : \A g \in Garbage(Self, Self) :
          LET buf == [i \in 1..len |-> 0]
              o == read(Self, buf, g)
              k == Min(len, count)
          IN /\ ~o.panic
             /\ o.n = k
             /\ o.self.count = count - k
             /\ SubSeq(o.ret, 1, k) = SubSeq(PopUntilNone(Self, g), 1, k)
             /\ SubSeq(o.ret, k + 1, len) = SubSeq(buf, k + 1, len)

\* C11: read() into a region of length L strictly smaller than the live count
\* transfers exactly L elements oldest-first and leaves the other count - L
\* elements in the buffer, which the next() calls that follow return in
\* their original order.
C11_ReadPartial ==
    ~panicked
    => \A len \in 0..MaxBuf : \A g \in Garbage(Self, Self) :
          len < count
          => LET buf == [i \in 1..len |-> 0]
                 o == read(Self, buf, g)
                 P == PopUntilNone(Self, g)
             IN /\ ~o.panic
                /\ o.n = len
                /\ o.ret = SubSeq(P, 1, len)
                /\ o.self.count = count - len
                /\ PopUntilNone(o.self, g) = SubSeq(P, len + 1, Len(P))

\* The buffer after push(b1), ..., push(bn), called one after the other.
RECURSIVE PushAll(_, _)
PushAll(self, buf) ==
    IF buf = <<>> THEN self
    ELSE PushAll(push(self, Head(buf)).self, Tail(buf))

\* C12: for every input b1..bn, n > capacity included, write() returns Ok(n)
\* and leaves the buffer in the state push(b1), ..., push(bn) produce; it
\* never rejects or truncates its input.
C12_WriteAdapter ==
    ~panicked
    => \A len \in 0..MaxBuf : \A buf \in [1..len -> Vals] :
          LET o == write(Self, buf)
          IN /\ ~o.panic
             /\ o.n = len
             /\ o.self = PushAll(Self, buf)

\* C13: with_capacity(0) fails, so capacity is positive in every state in
\* which push, next, clear or drain has been called on a buffer.
C13_ZeroCapacityRejected ==
    last.op \in {"push", "next", "clear", "drain"} => capacity >= 1

\* C14: no operation changes capacity: in every reachable state capacity()
\* returns the value that was passed to with_capacity.
C14_CapacityFidelity ==
    /\ capacity_of(Self) = requested
    /\ capacity = requested

\* A buffer of capacity >= 2 that has been filled, cleared and is being
\* filled again.
C14_Witness ==
    /\ last.op = "write" /\ last.n >= 1
    /\ requested >= 2 /\ capacity_of(Self) = requested
    /\ storage # shadow.storage

\* C15: from every reachable state with count = n, exactly n consecutive
\* next() calls return Some and every following one returns None; the
\* iteration ends after at most capacity elements.
C15_IterationExhausts ==
    ~panicked
    => \A g \in Garbage(Self, Self) :
          LET r == collect(Self, g)
              after == next(r.self, g)
          IN /\ Len(r.ret) = count
             /\ Len(r.ret) <= capacity
             /\ after.ret = None
             /\ next(after.self, g).ret = None

\* Two or more pushes, then exactly as many next() calls that returned Some,
\* then one that returned None.
C15_Witness ==
    /\ phase = "popping" /\ Len(pushed) >= 2 /\ Len(pushed) <= capacity
    /\ Len(out) = Len(pushed) + 1
    /\ \A j \in 1..Len(pushed) : out[j] # None
    /\ out[Len(out)] = None
    /\ count = 0

\* C16: a push() that overwrites a slot holding a live (pushed, not yet
\* popped) element finalizes that element, and a clear() finalizes every
\* live element it discards.
C16_DiscardFinalizes ==
    [][/\ (last'.op = "push" /\ ~panicked' /\ own[head] = "live")
          => dropped' = 1
       /\ (last'.op = "clear")
          => dropped' = Cardinality({i \in Window(Self) : own[i] = "live"})
      ]_vars

\* C17: slot i holds a constructed value (written by push and not since
\* moved out by next or finalized) if and only if i is one of the count
\* indices tail, (tail + 1) mod capacity, ..., (tail + count - 1) mod
\* capacity.
C17_SlotLiveness ==
    (capacity >= 1 /\ ~panicked)
    => \A i \in 0..(capacity - 1) :
          (own[i] = "live") <=> (i \in Window(Self))

\* C18: head = (tail + count) mod capacity in every state reachable by push,
\* next, clear and drain on a buffer of capacity >= 1.
C18_HeadTailCount ==
    capacity >= 1 => head = (tail + count) % capacity

\* C19: a next() that returns Some reads a slot whose value has not been
\* moved out before, so no pushed value is handed out twice; and a push()
\* into a buffer that is not full does not overwrite an element that is
\* still in the buffer, so no value is skipped without being evicted.
C19_NoDoubleHandOut ==
    [][/\ (last'.op = "next" /\ last'.n = 1) => own[tail] = "live"
       /\ (last'.op = "push" /\ ~panicked' /\ count < capacity)
          => ~(head \in Window(Self) /\ own[head] = "live")
      ]_vars

\* C20: whenever count > 0, the slot at tail, and every slot that the
\* following next() calls read, has been written by a push since
\* construction.
C20_NoUninitRead ==
    (capacity >= 1 /\ count > 0)
    => /\ tail \in DOMAIN storage
       /\ storage[tail] # Uninit
       /\ UninitWindow(Self) = {}

\* next() has just read a slot of a block that still has a slot no push has
\* written.
C20_Witness ==
    /\ last.op = "next" /\ last.n = 1
    /\ \E i \in DOMAIN storage : storage[i] = Uninit

====
